---- MODULE Spec2Model ----
(***************************************************************************)
(* Model of app/main.py: KeyVaultAgent.grab_secrets, the one-shot agent    *)
(* that reads secrets and certificates from Key Vault and dumps them into  *)
(* <SECRETS_FOLDER>/{secrets,certs,keys}.                                  *)
(*                                                                         *)
(* Strings are sequences of one-character strings, so that split, strip    *)
(* and partition are computed character by character as Python does.       *)
(* A file is the sequence of chunks written to it since it was last        *)
(* truncated; open(path, 'w') truncates, write appends one chunk.          *)
(***************************************************************************)
EXTENDS Integers, Sequences, FiniteSets, TLC

VARIABLES
    env,        \* os.getenv: SECRETS_KEYS and CERTS_KEYS, each unset or a string
    dirs,       \* the output folders that exist
    files,      \* the file system: path -> content, for the paths that exist
    pc,         \* position of the process in __main__ / grab_secrets
    run,        \* 1: first invocation of the agent, 2: second invocation
    reqs,       \* the list the current for loop iterates (filtered tokens)
    i,          \* index of the current loop item in reqs
    cur,        \* key_name, key_version of the current item
    resp,       \* the bundle returned by the last get_secret / get_certificate
    fetchLog,   \* history: the vault calls issued by this invocation
    writeLog,   \* history: the file writes completed by this invocation
    splitLog,   \* history: the _dump_pfx calls of this invocation
    err,        \* the exception that ended this invocation, if any
    files1,     \* history: the file system when the first invocation ended
    log1,       \* history: the vault calls of the first invocation
    pIn,        \* loop header alone: the delimited list it is run on
    pPc,        \* loop header alone: position
    pTokens,    \* loop header alone: tokens left to iterate
    pOut        \* loop header alone: (key_name, key_version) pairs handed to the vault

vars == <<env, dirs, files, pc, run, reqs, i, cur, resp, fetchLog, writeLog,
          splitLog, err, files1, log1, pIn, pPc, pTokens, pOut>>

runVars == <<env, dirs, files, pc, run, reqs, i, cur, resp, fetchLog, writeLog,
             splitLog, err, files1, log1>>

parseVars == <<pIn, pPc, pTokens, pOut>>

\* ---------------------------------------------------------------- bounds

\* Tokens in SECRETS_KEYS and CERTS_KEYS together.
MaxTokens == 3

\* Length of the delimited list in the parser check.
MaxLen == 4

\* ---------------------------------------------------------------- strings

Space == " "

\* str.split(sep): every separator ends a token, empty tokens are kept.
RECURSIVE SplitAcc(_, _, _, _)
SplitAcc(s, sep, tok, acc) ==
    IF s = <<>> THEN Append(acc, tok)
    ELSE IF Head(s) = sep THEN SplitAcc(Tail(s), sep, <<>>, Append(acc, tok))
    ELSE SplitAcc(Tail(s), sep, Append(tok, Head(s)), acc)

Split(s, sep) == SplitAcc(s, sep, <<>>, <<>>)

\* A loop over keys.split(';') that forgot filter(None, ...).
FilterNothing(tokens) == tokens

\* filter(None, tokens): the tokens that are truthy, i.e. not the empty string.
FilterNone(tokens) == SelectSeq(tokens, LAMBDA t : t # <<>>)

RECURSIVE LStrip(_)
LStrip(s) == IF s # <<>> /\ Head(s) = Space THEN LStrip(Tail(s)) ELSE s

RECURSIVE RStrip(_)
RStrip(s) ==
    IF s # <<>> /\ s[Len(s)] = Space THEN RStrip(SubSeq(s, 1, Len(s) - 1)) ELSE s

\* str.strip()
Strip(s) == RStrip(LStrip(s))

\* str.partition(sep): (head, sep, tail) around the first sep, (s, '', '') without one.
RECURSIVE PartitionAcc(_, _, _)
PartitionAcc(s, sep, head) ==
    IF s = <<>> THEN <<head, <<>>, <<>>>>
    ELSE IF Head(s) = sep THEN <<head, <<sep>>, Tail(s)>>
    ELSE PartitionAcc(Tail(s), sep, Append(head, Head(s)))

Partition(s, sep) == PartitionAcc(s, sep, <<>>)

\* key_name, _, key_version = key_info.strip().partition(':')
KeyInfo(key_info) ==
    LET p == Partition(Strip(key_info), ":")
    IN  [name |-> p[1], version |-> p[3]]

\* filter(None, keys.split(';'))
KeyList(keys) == FilterNone(Split(keys, ";"))

\* ';'.join(tokens), to build the values SECRETS_KEYS and CERTS_KEYS take
RECURSIVE Join(_)
Join(tokens) ==
    IF tokens = <<>> THEN <<>>
    ELSE IF Len(tokens) = 1 THEN tokens[1]
    ELSE tokens[1] \o <<";">> \o Join(Tail(tokens))

\* ---------------------------------------------------------------- the environment

Folders == {"secrets", "certs", "keys"}

\* the order of the tuple the folder loop iterates
FolderOrder == <<"secrets", "certs", "keys">>

\* os.getenv(name): None when the variable is unset
Unset == [set |-> FALSE, val |-> <<>>]

IsSet(s) == [set |-> TRUE, val |-> s]

\* Tokens the configured lists are built from: an empty token, a bare name,
\* a name with a version, a second name.
EnvTokens == {<<>>, <<"a">>, <<"a", ":", "1">>, <<"b">>}

TokenSeqs(n) == UNION {[1..k -> EnvTokens] : k \in 0..n}

EnvValues(n) == {Unset} \cup {IsSet(Join(ts)) : ts \in TokenSeqs(n)}

\* the pairs (SECRETS_KEYS, CERTS_KEYS) holding at most MaxTokens tokens together
EnvConfigs ==
    UNION {{[secrets_keys |-> s, certs_keys |-> c] :
                s \in EnvValues(k), c \in EnvValues(MaxTokens - k)} : k \in 0..MaxTokens}

\* secret.kid of a secret that backs no certificate
None == "None"

\* secret.value: the first is no base64 PKCS12 bundle, the second is one
Values == {"hello", "pfx1"}

Pkcs12Values == {"pfx1"}

Kids == {None, "kid1"}

Cers == {"der1", "der2"}

NoBundle == [value |-> "", kid |-> None, cer |-> ""]

\* what client.get_secret can return
SecretBundles == {[value |-> v, kid |-> k, cer |-> ""] : v \in Values, k \in Kids}

\* what client.get_certificate can return
CertificateBundles == {[value |-> "", kid |-> None, cer |-> c] : c \in Cers}

NoKey == [name |-> <<>>, version |-> <<>>]

NoPath == <<"", <<>>>>

NoErr == [kind |-> "none", path |-> NoPath]

NoFiles == [p \in {} |-> <<>>]

\* ---------------------------------------------------------------- conversions

\* secret_file.write(secret.value): the value as it came
RawData(v) == <<"", "raw", v>>

\* crypto.dump_privatekey(FILETYPE_PEM, p12.get_privatekey())
PrivateKeyPem(v) == <<"PRIVATE KEY", "openssl", v>>

\* crypto.dump_certificate(FILETYPE_PEM, p12.get_certificate())
CertificatePem(v) == <<"CERTIFICATE", "openssl", v>>

\* _cert_to_pem: base64.encodestring between the BEGIN and END CERTIFICATE lines
CertToPem(cer) == <<"CERTIFICATE", "base64", cer>>

\* crypto.load_pkcs12(base64.decodestring(pfx)) returns instead of raising
LoadsPkcs12(v) == v \in Pkcs12Values

\* ---------------------------------------------------------------- the file system

\* A path that tells the versions of a name apart.
OutputPathVersioned(folder, key) == <<folder, key.name \o key.version>>

\* os.path.join(folder, key_name)
OutputPath(folder, key) == <<folder, key.name>>

\* open(path, 'a'): the content of an existing file is kept.
OpenFileAppend(fs, path) == IF path \in DOMAIN fs THEN fs ELSE (path :> <<>>) @@ fs

\* open(path, 'w'): the file is created, or truncated when it exists
OpenFile(fs, path) == (path :> <<>>) @@ fs

\* with open(path, 'w') as f: f.write(data)
WriteFile(fs, path, data) ==
    LET opened == OpenFile(fs, path)
    IN  (path :> Append(opened[path], data)) @@ opened

\* open succeeds only on a file name inside an existing folder
CanOpen(path) == path[1] \in dirs /\ path[2] # <<>>

\* A handler that removes the output before the process exits.
AbortFilesRemoved(fs) == [p \in {} |-> <<>>]

\* No handler catches the exception: what is on disk stays as it is.
AbortFiles(fs) == fs

Raise(kind, path) ==
    /\ pc' = "aborted"
    /\ err' = [kind |-> kind, path |-> path]

\* ---------------------------------------------------------------- the run

\* The test on kid the wrong way round.
DumpsPfxInverted(bundle) == bundle.kid = None

\* if secret.kid is not None
DumpsPfx(bundle) == bundle.kid # None

\* A folder loop that leaves the keys folder out.
FoldersToCreateNoKeys == {"secrets", "certs"}

\* the folders the loop over the three output folders makes sure of
FoldersToCreate == {FolderOrder[k] : k \in 1..3}

\* The certificates block placed before the secrets block.
BlockAfterCertsFirst(p) ==
    IF p = "client" THEN "cloop" ELSE IF p = "cloop" THEN "sloop" ELSE "done"

\* The order of the blocks of grab_secrets after _get_client: the secrets
\* loop, the certificates loop, then the return to __main__.
BlockAfter(p) ==
    IF p = "client" THEN "sloop" ELSE IF p = "sloop" THEN "cloop" ELSE "done"

SecretsKeys == env.secrets_keys

\* The certificates loop iterating the secrets list.
CertsKeysCopied == env.secrets_keys

CertsKeys == env.certs_keys

\* if keys is not None: for key_info in filter(None, keys.split(';'))
LoopItems(p) ==
    LET keys == IF p = "sloop" THEN SecretsKeys
                ELSE IF p = "cloop" THEN CertsKeys ELSE Unset
    IN  IF keys.set THEN KeyList(keys.val) ELSE <<>>

\* the for loop takes the item after item k
NextItem(k) == k + 1

EnterBlock(p) ==
    /\ pc' = p
    /\ reqs' = LoopItems(p)
    /\ i' = 1

\* The vault answers as it likes in the first invocation; the second
\* invocation is given the answers of the first.
Answers(bundles) ==
    IF run = 1 THEN bundles ELSE {log1[Len(fetchLog) + 1].resp}

Fetched(op, key, bundle, ok) ==
    [op |-> op, name |-> key.name, version |-> key.version, resp |-> bundle, ok |-> ok]

\* KeyVaultAgent(): _parse_sp_file
Construct ==
    /\ pc = "ctor"
    /\ \/ /\ pc' = "mkdirs"
          /\ UNCHANGED <<err, files>>
       \/ /\ run = 1
          /\ Raise("ConfigError", NoPath)
          /\ files' = AbortFiles(files)
    /\ UNCHANGED <<env, dirs, run, reqs, i, cur, resp, fetchLog, writeLog, splitLog,
                   files1, log1, parseVars>>

\* for folder in (...): if not os.path.exists(folder): os.makedirs(folder)
MakeDirs ==
    /\ pc = "mkdirs"
    /\ \/ /\ dirs' = dirs \cup FoldersToCreate
          /\ pc' = "client"
          /\ UNCHANGED <<err, files>>
       \/ \E k \in 1..3 :
             /\ FolderOrder[k] \notin dirs
             /\ dirs' = dirs \cup {FolderOrder[j] : j \in 1..(k - 1)}
             /\ Raise("OSError", <<FolderOrder[k], <<>>>>)
             /\ files' = AbortFiles(files)
    /\ UNCHANGED <<env, run, reqs, i, cur, resp, fetchLog, writeLog, splitLog,
                   files1, log1, parseVars>>

\* client = self._get_client(), then on to the first block
GetClient ==
    /\ pc = "client"
    /\ EnterBlock(BlockAfter("client"))
    /\ UNCHANGED <<env, dirs, files, run, cur, resp, fetchLog, writeLog, splitLog, err,
                   files1, log1, parseVars>>

\* A handler around get_secret that notes the error and goes on with the next item.
GetSecretFailsSkips ==
    /\ pc = "sloop" /\ i <= Len(reqs) /\ run = 1
    /\ cur' = KeyInfo(reqs[i])
    /\ fetchLog' = Append(fetchLog,
           [op |-> "get_secret", name |-> cur'.name, version |-> cur'.version,
            resp |-> NoBundle, ok |-> FALSE])
    /\ err' = [kind |-> "NotFoundError", path |-> NoPath]
    /\ i' = i + 1
    /\ UNCHANGED <<env, dirs, files, pc, run, reqs, resp, writeLog, splitLog, files1,
                   log1, parseVars>>

\* client.get_secret raises
GetSecretFails ==
    /\ pc = "sloop" /\ i <= Len(reqs) /\ run = 1
    /\ cur' = KeyInfo(reqs[i])
    /\ fetchLog' = Append(fetchLog, Fetched("get_secret", cur', NoBundle, FALSE))
    /\ Raise("NotFoundError", NoPath)
    /\ files' = AbortFiles(files)
    /\ UNCHANGED <<env, dirs, run, reqs, i, resp, writeLog, splitLog, files1, log1,
                   parseVars>>

\* secret = client.get_secret(vault_base_url, key_name, key_version)
GetSecret ==
    \/ /\ pc = "sloop" /\ i <= Len(reqs)
       /\ \E bundle \in Answers(SecretBundles) :
             /\ cur' = KeyInfo(reqs[i])
             /\ resp' = bundle
             /\ fetchLog' = Append(fetchLog, Fetched("get_secret", cur', bundle, TRUE))
             /\ pc' = IF DumpsPfx(bundle) THEN "load" ELSE "wsecret"
       /\ UNCHANGED <<env, dirs, files, run, reqs, i, writeLog, splitLog, err, files1,
                      log1, parseVars>>
    \/ GetSecretFails

\* A _dump_pfx that opens the key file before it loads the bundle.
DumpPfxLoadAfterOpen ==
    /\ pc = "load"
    /\ splitLog' = Append(splitLog, Len(fetchLog))
    /\ \/ /\ resp.value \in Pkcs12Values
          /\ pc' = "wkey"
          /\ UNCHANGED <<err, files>>
       \/ /\ resp.value \notin Pkcs12Values
          /\ pc' = "aborted"
          /\ err' = [kind |-> "FormatError", path |-> NoPath]
          /\ files' = (<<"keys", cur.name>> :> <<>>) @@ files
    /\ UNCHANGED <<env, dirs, run, reqs, i, cur, resp, fetchLog, writeLog, files1, log1,
                   parseVars>>

\* _dump_pfx: p12 = crypto.load_pkcs12(base64.decodestring(pfx)), and the two dumps
DumpPfxLoad ==
    /\ pc = "load"
    /\ splitLog' = Append(splitLog, Len(fetchLog))
    /\ \/ /\ LoadsPkcs12(resp.value)
          /\ pc' = "wkey"
          /\ UNCHANGED <<err, files>>
       \/ /\ ~LoadsPkcs12(resp.value)
          /\ Raise("FormatError", NoPath)
          /\ files' = AbortFiles(files)
    /\ UNCHANGED <<env, dirs, run, reqs, i, cur, resp, fetchLog, writeLog, files1, log1,
                   parseVars>>

\* with open(path, 'w') as f: f.write(data): it succeeds, or open raises, or
\* the write raises on the file open has truncated.
WriteStep(path, data, nextPc, nextI) ==
    /\ \/ /\ CanOpen(path)
          /\ files' = WriteFile(files, path, data)
          /\ writeLog' = Append(writeLog,
                 [fetch |-> Len(fetchLog), path |-> path, data |-> data])
          /\ pc' = nextPc
          /\ i' = nextI
          /\ err' = err
       \/ /\ files' = AbortFiles(files)
          /\ Raise("IOError", path)
          /\ UNCHANGED <<writeLog, i>>
       \/ /\ CanOpen(path)
          /\ files' = AbortFiles(OpenFile(files, path))
          /\ Raise("IOError", path)
          /\ UNCHANGED <<writeLog, i>>
    /\ UNCHANGED <<env, dirs, run, reqs, cur, resp, fetchLog, splitLog, files1, log1,
                   parseVars>>

\* _dump_pfx: key_file.write(pk)
DumpPfxKey ==
    /\ pc = "wkey"
    /\ WriteStep(OutputPath("keys", cur), PrivateKeyPem(resp.value), "wcert", i)

\* _dump_pfx: cert_file.write(cert)
DumpPfxCert ==
    /\ pc = "wcert"
    /\ WriteStep(OutputPath("certs", cur), CertificatePem(resp.value), "wsecret", i)

\* secret_file.write(secret.value)
DumpSecret ==
    /\ pc = "wsecret"
    /\ WriteStep(OutputPath("secrets", cur), RawData(resp.value), "sloop", NextItem(i))

\* the secrets loop is exhausted
EndSecrets ==
    /\ pc = "sloop" /\ i > Len(reqs)
    /\ EnterBlock(BlockAfter("sloop"))
    /\ UNCHANGED <<env, dirs, files, run, cur, resp, fetchLog, writeLog, splitLog, err,
                   files1, log1, parseVars>>

\* client.get_certificate raises
GetCertificateFails ==
    /\ pc = "cloop" /\ i <= Len(reqs) /\ run = 1
    /\ cur' = KeyInfo(reqs[i])
    /\ fetchLog' = Append(fetchLog, Fetched("get_certificate", cur', NoBundle, FALSE))
    /\ Raise("NotFoundError", NoPath)
    /\ files' = AbortFiles(files)
    /\ UNCHANGED <<env, dirs, run, reqs, i, resp, writeLog, splitLog, files1, log1,
                   parseVars>>

\* cert = client.get_certificate(vault_base_url, key_name, key_version)
GetCertificate ==
    \/ /\ pc = "cloop" /\ i <= Len(reqs)
       /\ \E bundle \in Answers(CertificateBundles) :
             /\ cur' = KeyInfo(reqs[i])
             /\ resp' = bundle
             /\ fetchLog' = Append(fetchLog, Fetched("get_certificate", cur', bundle, TRUE))
             /\ pc' = "wpem"
       /\ UNCHANGED <<env, dirs, files, run, reqs, i, writeLog, splitLog, err, files1,
                      log1, parseVars>>
    \/ GetCertificateFails

\* cert_file.write(self._cert_to_pem(cert.cer))
DumpCert ==
    /\ pc = "wpem"
    /\ WriteStep(OutputPath("certs", cur), CertToPem(resp.cer), "cloop", NextItem(i))

\* the certificates loop is exhausted
EndCerts ==
    /\ pc = "cloop" /\ i > Len(reqs)
    /\ EnterBlock(BlockAfter("cloop"))
    /\ UNCHANGED <<env, dirs, files, run, cur, resp, fetchLog, writeLog, splitLog, err,
                   files1, log1, parseVars>>

\* The agent is started again on the same configuration and the same vault.
Rerun ==
    /\ pc = "done" /\ run = 1
    /\ run' = 2
    /\ files1' = files
    /\ log1' = fetchLog
    /\ pc' = "ctor"
    /\ reqs' = <<>>
    /\ i' = 1
    /\ cur' = NoKey
    /\ resp' = NoBundle
    /\ fetchLog' = <<>>
    /\ writeLog' = <<>>
    /\ splitLog' = <<>>
    /\ UNCHANGED <<env, dirs, files, err, parseVars>>

ParseIdle ==
    /\ pIn = <<>>
    /\ pPc = "idle"
    /\ pTokens = <<>>
    /\ pOut = <<>>

Init ==
    /\ env \in EnvConfigs
    /\ dirs \in SUBSET Folders
    /\ files = NoFiles
    /\ pc = "ctor"
    /\ run = 1
    /\ reqs = <<>>
    /\ i = 1
    /\ cur = NoKey
    /\ resp = NoBundle
    /\ fetchLog = <<>>
    /\ writeLog = <<>>
    /\ splitLog = <<>>
    /\ err = NoErr
    /\ files1 = NoFiles
    /\ log1 = <<>>
    /\ ParseIdle

Next ==
    \/ Construct
    \/ MakeDirs
    \/ GetClient
    \/ GetSecret
    \/ DumpPfxLoad
    \/ DumpPfxKey
    \/ DumpPfxCert
    \/ DumpSecret
    \/ EndSecrets
    \/ GetCertificate
    \/ DumpCert
    \/ EndCerts
    \/ Rerun

Spec == Init /\ [][Next]_vars

\* ---------------------------------------------------------------- the loop header alone

\* the characters of the lists the loop header is run on
Alphabet == {"a", ";", ":", Space}

Strings(n) == UNION {[1..k -> Alphabet] : k \in 0..n}

RunIdle ==
    /\ env = [secrets_keys |-> Unset, certs_keys |-> Unset]
    /\ dirs = {}
    /\ files = NoFiles
    /\ pc = "idle"
    /\ run = 1
    /\ reqs = <<>>
    /\ i = 1
    /\ cur = NoKey
    /\ resp = NoBundle
    /\ fetchLog = <<>>
    /\ writeLog = <<>>
    /\ splitLog = <<>>
    /\ err = NoErr
    /\ files1 = NoFiles
    /\ log1 = <<>>

ParseInit ==
    /\ pIn \in Strings(MaxLen)
    /\ pPc = "split"
    /\ pTokens = <<>>
    /\ pOut = <<>>
    /\ RunIdle

\* filter(None, keys.split(';'))
ParseSplit ==
    /\ pPc = "split"
    /\ pTokens' = KeyList(pIn)
    /\ pPc' = "loop"
    /\ UNCHANGED <<pIn, pOut, runVars>>

\* one item of the loop: key_name, _, key_version = key_info.strip().partition(':'),
\* and the pair goes to the vault client
ParseItem ==
    /\ pPc = "loop" /\ pTokens # <<>>
    /\ pOut' = Append(pOut, KeyInfo(Head(pTokens)))
    /\ pTokens' = Tail(pTokens)
    /\ UNCHANGED <<pIn, pPc, runVars>>

\* the loop is exhausted
ParseEnd ==
    /\ pPc = "loop" /\ pTokens = <<>>
    /\ pPc' = "end"
    /\ UNCHANGED <<pIn, pTokens, pOut, runVars>>

ParseNext == ParseSplit \/ ParseItem \/ ParseEnd

SpecParse == ParseInit /\ [][ParseNext]_vars

\* ---------------------------------------------------------------- C5: the list syntax

Range(s) == {s[k] : k \in 1..Len(s)}

\* positions of the delimiters of s, with the two ends of s
Delims(s) == {k \in 1..Len(s) : s[k] = ";"} \cup {0, Len(s) + 1}

\* the delimiters a non-empty token follows
TokenStarts(s) == {d \in Delims(s) : d <= Len(s) /\ (d + 1) \notin Delims(s)}

TokenEnd(s, d) == CHOOSE e \in Delims(s) : e > d /\ \A f \in Delims(s) : f > d => e <= f

TokenAt(s, d) == SubSeq(s, d + 1, TokenEnd(s, d) - 1)

\* t without the blanks at its two ends
Trimmed(t) ==
    LET inked == {k \in 1..Len(t) : t[k] # Space}
    IN  IF inked = {} THEN <<>>
        ELSE SubSeq(t, CHOOSE a \in inked : \A b \in inked : a <= b,
                       CHOOSE a \in inked : \A b \in inked : a >= b)

\* r.name is what precedes the first ':' of t and r.version what follows it
NameVersionOf(t, r) ==
    /\ ":" \notin Range(r.name)
    /\ \/ ":" \notin Range(t) /\ r.name = t /\ r.version = <<>>
       \/ t = r.name \o <<":">> \o r.version

\* the requests are the non-empty tokens of the list, in their order
OnePerToken(Token(_)) ==
    /\ Len(pOut) = Cardinality(TokenStarts(pIn))
    /\ \A d \in TokenStarts(pIn) :
          LET k == Cardinality({e \in TokenStarts(pIn) : e <= d})
          IN  NameVersionOf(Token(TokenAt(pIn, d)), pOut[k])

\* C5 (as amended): parsing a semicolon-delimited list yields exactly one
\* request per non-empty token, in the original order, empty tokens being
\* skipped; the name of a request is the part before the first ':' of the
\* token with the blanks at its ends stripped, and its version the part after
\* it (empty without ':'). The name of a request can be empty.
C5_ParseStripped ==
    pPc = "end" => OnePerToken(LAMBDA t : Trimmed(t))

\* C5 as stated: the name is the part of the token itself before the first
\* ':', and every request handed to the vault has a non-empty name.
C5_ParseAsClaimed ==
    pPc = "end" =>
        /\ OnePerToken(LAMBDA t : t)
        /\ \A k \in 1..Len(pOut) : pOut[k].name # <<>>

\* a list with an empty token and two requests, one of them without a name
C5_Witness ==
    /\ pPc = "end"
    /\ Len(pOut) = 2
    /\ Cardinality(Delims(pIn)) = 4
    /\ \E k \in 1..2 : pOut[k].name = <<>>

\* ---------------------------------------------------------------- the claims on a run

Fetches == 1..Len(fetchLog)

IsSecret(k) == fetchLog[k].op = "get_secret" /\ fetchLog[k].ok

IsCert(k) == fetchLog[k].op = "get_certificate" /\ fetchLog[k].ok

\* the secret fetched at k is one that backs a certificate
Backing(k) == IsSecret(k) /\ fetchLog[k].resp.kid # None

\* the writes completed while the request fetched at k was being processed
WritesOf(k) == {[path |-> writeLog[j].path, data |-> writeLog[j].data] :
                    j \in {j \in 1..Len(writeLog) : writeLog[j].fetch = k}}

NumWritesOf(k) == Cardinality({j \in 1..Len(writeLog) : writeLog[j].fetch = k})

\* the request fetched at k has been processed to its end
Processed(k) == k < Len(fetchLog) \/ pc \in {"sloop", "cloop", "done"}

\* the last fetch of the kind Kind for the name n
LastOf(Kind(_), n) ==
    CHOOSE k \in Fetches :
        /\ Kind(k) /\ fetchLog[k].name = n
        /\ \A j \in Fetches : Kind(j) /\ fetchLog[j].name = n => j <= k

Holds(path, data) == path \in DOMAIN files /\ files[path] = <<data>>

\* C1: a secret request processed without error has written exactly the three
\* files keys/<name> (private key PEM), certs/<name> (certificate PEM) and
\* secrets/<name> (raw value) when the secret's kid is present, and only
\* secrets/<name>, without a call of the splitter, when it is not.
C1_ThreeFilesOrOne ==
    \A k \in Fetches : IsSecret(k) /\ Processed(k) =>
        LET n == fetchLog[k].name
            v == fetchLog[k].resp.value
        IN  IF fetchLog[k].resp.kid # None
            THEN /\ WritesOf(k) = {[path |-> <<"keys", n>>, data |-> PrivateKeyPem(v)],
                                   [path |-> <<"certs", n>>, data |-> CertificatePem(v)],
                                   [path |-> <<"secrets", n>>, data |-> RawData(v)]}
                 /\ NumWritesOf(k) = 3
                 /\ \E j \in 1..Len(splitLog) : splitLog[j] = k
            ELSE /\ WritesOf(k) = {[path |-> <<"secrets", n>>, data |-> RawData(v)]}
                 /\ NumWritesOf(k) = 1
                 /\ \A j \in 1..Len(splitLog) : splitLog[j] # k

\* a finished run that processed a certificate-backed secret and a plain one
C1_Witness ==
    /\ pc = "done" /\ run = 1
    /\ \E k \in Fetches : Backing(k)
    /\ \E k \in Fetches : IsSecret(k) /\ ~Backing(k)

\* C2: once an error has occurred the run is aborted: no vault call is issued,
\* no file is written or changed and the position never moves again, so no
\* later request is processed and the run does not reach its end.
C2_FailFast ==
    /\ [](err # NoErr => pc = "aborted")
    /\ [][err # NoErr =>
            /\ fetchLog' = fetchLog
            /\ writeLog' = writeLog
            /\ files' = files
            /\ pc' = "aborted"]_vars

\* a vault call failed on a request that was neither the first nor the last
C2_Witness ==
    /\ pc = "aborted" /\ err.kind = "NotFoundError"
    /\ Len(fetchLog) = 2 /\ writeLog # <<>>
    /\ i < Len(reqs)

\* the secret fetched at k backs a certificate and its value is no PKCS12 bundle
Malformed(k) == Backing(k) /\ fetchLog[k].resp.value \notin Pkcs12Values

\* C3: when a secret with a kid has a value that is no parseable PKCS12
\* bundle, the splitter fails and the run aborts with no write to any file
\* while that identifier is processed: the file system is left as it was.
C3_MalformedWritesNothing ==
    /\ [](\A k \in Fetches : Malformed(k) =>
            /\ k = Len(fetchLog)
            /\ pc \in {"load", "aborted"}
            /\ pc = "aborted" => err.kind = "FormatError"
            /\ WritesOf(k) = {})
    /\ [][pc = "load" /\ Malformed(Len(fetchLog)) =>
            files' = files /\ pc' = "aborted"]_vars

\* the splitter failed on the second request, after the files of the first
C3_Witness ==
    /\ pc = "aborted" /\ err.kind = "FormatError"
    /\ Malformed(Len(fetchLog))
    /\ writeLog # <<>>

\* the names requested as a certificate and as a certificate-backed secret
SharedNames ==
    {fetchLog[k].name : k \in {k \in Fetches : IsCert(k)}}
        \cap {fetchLog[k].name : k \in {k \in Fetches : Backing(k)}}

\* C4 (as amended): when a name n is requested in CERTS_KEYS and in
\* SECRETS_KEYS and the secret n backs a certificate, the certificate written
\* for the CERTS_KEYS entry overwrites the splitter's certificate: after a
\* successful run certs/n holds the PEM built from the GetCertificate record
\* of the last CERTS_KEYS request for n.
C4_CertsEntryWins ==
    pc = "done" =>
        \A n \in SharedNames :
            Holds(<<"certs", n>>, CertToPem(fetchLog[LastOf(IsCert, n)].resp.cer))

\* C4 as stated: after a successful run certs/n holds the certificate PEM
\* split out of the secret's PKCS12 bundle.
C4_SplitterWins ==
    pc = "done" =>
        \A n \in SharedNames :
            Holds(<<"certs", n>>, CertificatePem(fetchLog[LastOf(Backing, n)].resp.value))

\* a finished run with a name requested both ways
C4_Witness ==
    /\ pc = "done" /\ run = 1
    /\ SharedNames # {}

\* C6: whenever a vault call has been issued or a file written, the three
\* output folders exist; and making sure of the folders is idempotent: it
\* removes no folder, touches no file, and with the three folders already
\* there it changes nothing and raises nothing.
C6_FoldersFirst ==
    /\ [](fetchLog # <<>> \/ writeLog # <<>> => Folders \subseteq dirs)
    /\ [][pc = "mkdirs" =>
            /\ dirs \subseteq dirs'
            /\ files' = files
            /\ Folders \subseteq dirs => dirs' = dirs /\ pc' = "client"]_vars

\* the second invocation found the folders of the first and is writing into them
C6_Witness ==
    /\ run = 2
    /\ fetchLog # <<>> /\ writeLog # <<>>

\* C7: a second run on the same configuration and the same vault answers
\* leaves every output file with the content it had after the first run, each
\* file holding the one chunk written last (overwritten, never appended to).
C7_SecondRunSame ==
    pc = "done" =>
        /\ \A p \in DOMAIN files : Len(files[p]) = 1
        /\ run = 2 => files = files1

\* a second run over at least three files has ended
C7_Witness ==
    /\ pc = "done" /\ run = 2
    /\ Cardinality(DOMAIN files) >= 3

\* the requests a run is configured with, in the order of the two lists
ItemsOf(keys) == IF keys.set THEN FilterNone(Split(keys.val, ";")) ELSE <<>>

\* C8: the path written for a request is made of the category folder and the
\* request's name alone; every request of the two lists is fetched, also when
\* its name was requested before, and after a successful run
\* <category folder>/<name> holds what the last request of that name in the
\* list produced.
C8_LastOfNameWins ==
    /\ \A j \in 1..Len(writeLog) : writeLog[j].path[2] = fetchLog[writeLog[j].fetch].name
    /\ pc = "done" =>
          /\ Len(fetchLog) = Len(ItemsOf(env.secrets_keys)) + Len(ItemsOf(env.certs_keys))
          /\ \A k \in Fetches :
                /\ IsSecret(k) =>
                      Holds(<<"secrets", fetchLog[k].name>>,
                            RawData(fetchLog[LastOf(IsSecret, fetchLog[k].name)].resp.value))
                /\ IsCert(k) =>
                      Holds(<<"certs", fetchLog[k].name>>,
                            CertToPem(fetchLog[LastOf(IsCert, fetchLog[k].name)].resp.cer))

\* a finished run that fetched two versions of one secret and got two values
C8_Witness ==
    /\ pc = "done" /\ run = 1
    /\ \E j, k \in Fetches :
          /\ j < k /\ IsSecret(j) /\ IsSecret(k)
          /\ fetchLog[j].name = fetchLog[k].name
          /\ fetchLog[j].version # fetchLog[k].version
          /\ fetchLog[j].resp.value # fetchLog[k].resp.value

\* the paths this run has written
Written == {writeLog[j].path : j \in 1..Len(writeLog)}

\* the data of the last write of this run to path p
LastData(p) ==
    LET j == CHOOSE j \in 1..Len(writeLog) :
                 /\ writeLog[j].path = p
                 /\ \A h \in 1..Len(writeLog) : writeLog[h].path = p => h <= j
    IN  writeLog[j].data

\* C9 (as amended): on abort nothing is cleaned up: every file written before
\* the error still exists, and keeps the content it was given unless it is the
\* very file whose write failed (which open may have truncated); so do the
\* files already written for the failing identifier itself.
C9_NoCleanup ==
    pc = "aborted" =>
        \A p \in Written :
            /\ p \in DOMAIN files
            /\ p # err.path => files[p] = <<LastData(p)>>

\* C9 as stated: every file written before the error keeps the content it
\* was given.
C9_AllContentKept ==
    pc = "aborted" =>
        \A p \in Written : p \in DOMAIN files /\ files[p] = <<LastData(p)>>

\* the write of secrets/<name> failed after keys/<name> and certs/<name> of the
\* same identifier and the files of an earlier identifier were written
C9_Witness ==
    /\ pc = "aborted" /\ err.kind = "IOError" /\ err.path[1] = "secrets"
    /\ NumWritesOf(Len(fetchLog)) = 2
    /\ Len(fetchLog) = 2

\* what a run is to ask the vault for
Expected(op, keys) ==
    LET items == ItemsOf(keys)
    IN  [k \in 1..Len(items) |->
            [op |-> op, name |-> KeyInfo(items[k]).name,
             version |-> KeyInfo(items[k]).version]]

Asked == [k \in Fetches |->
             [op |-> fetchLog[k].op, name |-> fetchLog[k].name,
              version |-> fetchLog[k].version]]

\* an upper bound on the steps a run has left
StepsOfCerts == 2 * Len(ItemsOf(env.certs_keys)) + 1

StepsOfRun == 3 + 5 * Len(ItemsOf(env.secrets_keys)) + 1 + StepsOfCerts

StepsLeft ==
    LET left == Len(reqs) - i
    IN  CASE pc = "ctor" -> StepsOfRun
          [] pc = "mkdirs" -> StepsOfRun - 1
          [] pc = "client" -> StepsOfRun - 2
          [] pc = "sloop" -> 5 * (left + 1) + 1 + StepsOfCerts
          [] pc = "load" -> 4 + 5 * left + 1 + StepsOfCerts
          [] pc = "wkey" -> 3 + 5 * left + 1 + StepsOfCerts
          [] pc = "wcert" -> 2 + 5 * left + 1 + StepsOfCerts
          [] pc = "wsecret" -> 1 + 5 * left + 1 + StepsOfCerts
          [] pc = "cloop" -> 2 * (left + 1) + 1
          [] pc = "wpem" -> 1 + 2 * left + 1
          [] OTHER -> 0

\* the writes the request fetched last has to make
WritesDue(k) == IF Backing(k) THEN 3 ELSE 1

\* C10: a run is one sequential pass that terminates: every step brings its end
\* nearer and no step is missing before the end; an error-free run has asked
\* the vault for the requests of SECRETS_KEYS in list order (get_secret), then
\* for those of CERTS_KEYS in list order (get_certificate), once each, an unset
\* list giving no call and no write; and a vault call is issued only when the
\* writes of the request before are complete.
C10_OnePass ==
    /\ [](pc = "done" =>
            /\ Asked = Expected("get_secret", env.secrets_keys)
                          \o Expected("get_certificate", env.certs_keys)
            /\ \A k \in Fetches : fetchLog[k].ok /\ NumWritesOf(k) = WritesDue(k)
            /\ Len(writeLog) <= 3 * Len(fetchLog))
    /\ [](pc \notin {"done", "aborted"} => ENABLED Next)
    /\ [][run' = run => StepsLeft' < StepsLeft]_vars
    /\ [][Len(fetchLog') > Len(fetchLog) /\ fetchLog # <<>> =>
            NumWritesOf(Len(fetchLog)) = WritesDue(Len(fetchLog))]_vars

\* an error-free run over two secrets and a certificate has ended
C10_Witness ==
    /\ pc = "done" /\ run = 1
    /\ Len(fetchLog) = 3
    /\ IsSecret(2) /\ IsCert(3)

====
